---- MODULE Spec2Model ----
(***************************************************************************)
(* The LC-3 virtual machine of lc3-vm.c as a state machine: the register   *)
(* file, the memory array with its memory-mapped keyboard registers, the   *)
(* host's standard input and output as the C library presents them, and    *)
(* one action per way an iteration of main's fetch/dispatch loop can go.   *)
(***************************************************************************)
EXTENDS Integers, Sequences, FiniteSets, TLC

(* ------------------------------ bounds --------------------------------- *)

\* Iterations of main's loop followed in one run.
MaxSteps == 6
\* Longest input the host holds ready on standard input.
MaxInput == 2

(* ------------------------- program constants --------------------------- *)

R_R0 == 0
R_R1 == 1
R_R2 == 2
R_R7 == 7
R_PC == 8
R_COND == 9
R_COUNT == 10

OP_BR == 0
OP_ADD == 1
OP_LD == 2
OP_ST == 3
OP_JSR == 4
OP_AND == 5
OP_LDR == 6
OP_STR == 7
OP_RTI == 8
OP_NOT == 9
OP_LDI == 10
OP_STI == 11
OP_JMP == 12
OP_RES == 13
OP_LEA == 14
OP_TRAP == 15

FL_POS == 1
FL_ZRO == 2
FL_NEG == 4

TRAP_GETC == 32
TRAP_OUT == 33
TRAP_PUTS == 34
TRAP_IN == 35
TRAP_PUTSP == 36
TRAP_HALT == 37

MR_KBSR == 65024
MR_KBDR == 65026

\* UINT16_MAX of <stdint.h>: the greatest uint16_t, and the length the
\* source gives the memory array.
UINT16_MAX == 65535
PC_START == 12288
\* EOF of <stdio.h>, what getchar returns at end of input.
EOF == -1

(* ------------------------- 16-bit arithmetic --------------------------- *)

\* Conversion of an int to uint16_t.
u16(x) == x % (UINT16_MAX + 1)

\* x >> n on a non-negative int.
Shr(x, n) == x \div (2 ^ n)

\* x << n on a non-negative 32-bit int, 0 <= n < 32. Where a one reaches
\* bit 31 the product is beyond int, which ISO C leaves undefined and GCC
\* and Clang define as the wrapped value; that is the negative int with
\* the same 32 bits: the bits below the sign, less 2^31.
Shl(x, n) ==
  IF n = 0 THEN x
  ELSE LET below == (x % (2 ^ (31 - n))) * (2 ^ n)
           sign == (x \div (2 ^ (31 - n))) % 2
       IN IF sign = 0 THEN below ELSE below - (2 ^ 30) - (2 ^ 30)

\* x & y and x | y on ints in two's complement.
RECURSIVE BitAnd(_, _)
BitAnd(x, y) ==
  IF x = 0 \/ y = 0 THEN 0
  ELSE IF x = -1 THEN y
  ELSE IF y = -1 THEN x
  ELSE (x % 2) * (y % 2) + 2 * BitAnd(x \div 2, y \div 2)

BitOr(x, y) == x + y - BitAnd(x, y)

\* ~x on a uint16_t, converted back to uint16_t.
BitNot16(x) == UINT16_MAX - x

\* A plausible slip: the field is used as it is, without extending its sign.
sign_extend_none(x, bit_count) == x

sign_extend(x, bit_count) ==
  IF BitAnd(Shr(x, bit_count - 1), 1) # 0
  THEN u16(BitOr(x, Shl(65535, bit_count)))
  ELSE x

swap16(x) == u16(BitOr(Shl(x, 8), Shr(x, 8)))

(* ------------------------------- state --------------------------------- *)

VARIABLES
  reg,          \* uint16_t reg[R_COUNT]
  memory,       \* uint16_t memory[UINT16_MAX], as the map of its cells that
                \* were ever loaded or stored; every other cell holds 0
  pad,          \* the two bytes that follow the memory array when the
                \* linker pads it (layout = "pad")
  running,      \* int running
  stdin_fd,     \* bytes the host holds ready on descriptor 0
  stdin_buf,    \* bytes the C library has read ahead into stdin's buffer
  stdout_buf,   \* bytes written to stdout and not yet flushed
  tty,          \* bytes that reached the host's output
  pc,           \* where main is: "load", "signal", "tcgetattr",
                \* "tcsetattr", "start", "loop", or where the process ended:
                \* "done" (main returned), "aborted", "interrupted"
  instr,        \* main's local instr: the word last fetched
  steps,        \* iterations of the loop so far
  layout,       \* what the build placed right after the memory array:
                \* "pad" (alignment padding, then reg) or "reg" (reg itself,
                \* the next zero-initialised object; running is initialised
                \* data and lies in another section)
  eof,          \* whether standard input ends after the bytes of stdin_fd
  char_signed,  \* whether the build's plain char is signed
  termios,      \* the attributes the terminal has now
  original_tio, \* struct termios original_tio
  handler,      \* whether handle_interrupt is installed for SIGINT
  argv,         \* the image files named on the command line
  argi,         \* main's j: the next image to load
  unit          \* a call of sign_extend on its own: arguments and result

env == <<layout, eof, char_signed>>
setup == <<original_tio, handler, argv, argi, unit>>
vars == <<reg, memory, pad, running, stdin_fd, stdin_buf, stdout_buf, tty,
          pc, instr, steps, layout, eof, char_signed,
          termios, original_tio, handler, argv, argi, unit>>

\* The machine as one record, the form the handlers below work on. ret is
\* the value the call just made returned.
Cur ==
  [reg |-> reg, memory |-> memory, pad |-> pad, running |-> running,
   stdin_fd |-> stdin_fd, stdin_buf |-> stdin_buf,
   stdout_buf |-> stdout_buf, tty |-> tty, ret |-> 0]

(* ------------------------------ memory --------------------------------- *)

\* The cells of the array: indices 0 .. UINT16_MAX - 1.
InArray(i) == i < UINT16_MAX

Cell(m, i) == IF i \in DOMAIN m THEN m[i] ELSE 0

Put(m, i, v) == [a \in (DOMAIN m) \cup {i} |-> IF a = i THEN v ELSE m[a]]

\* memory[i] as an rvalue, for a pointer or index i >= 0. Past the array
\* the access is out of bounds: it reaches what the build placed there, the
\* padding and then reg, or reg at once. What follows reg is not tracked
\* and reads as `unknown`.
Beyond(s, k, unknown) ==
  LET j == IF layout = "pad" THEN k - 1 ELSE k
  IN IF j < 0 THEN s.pad
     ELSE IF j < R_COUNT THEN s.reg[j]
     ELSE unknown

Index(s, i) ==
  IF InArray(i) THEN Cell(s.memory, i) ELSE Beyond(s, i - UINT16_MAX, 0)

\* memory[i] = v for a uint16_t index i.
Store(s, i, v) ==
  IF InArray(i) THEN [s EXCEPT !.memory = Put(@, i, v)]
  ELSE IF layout = "pad" THEN [s EXCEPT !.pad = v]
  ELSE [s EXCEPT !.reg[R_R0] = v]

(* --------------------------- standard input ---------------------------- *)

\* select on descriptor 0 with a zero timeout: the descriptor is readable
\* when bytes are pending on it or it is at end of file.
check_key(s) == IF s.stdin_fd # <<>> \/ eof THEN 1 ELSE 0

\* getchar would wait: nothing buffered, nothing pending, input not ended.
getchar_blocks(s) == s.stdin_buf = <<>> /\ s.stdin_fd = <<>> /\ ~eof

\* getchar: the next buffered byte; with an empty buffer, one read takes
\* all that is pending into the buffer; at end of input, EOF.
getchar(s) ==
  IF s.stdin_buf # <<>>
  THEN [s EXCEPT !.ret = Head(s.stdin_buf), !.stdin_buf = Tail(@)]
  ELSE IF s.stdin_fd # <<>>
  THEN [s EXCEPT !.ret = Head(s.stdin_fd), !.stdin_buf = Tail(s.stdin_fd),
                 !.stdin_fd = <<>>]
  ELSE [s EXCEPT !.ret = EOF]

(* --------------------------- standard output --------------------------- *)

\* putc(c, stdout): c converted to unsigned char joins the buffer.
putc(s, c) == [s EXCEPT !.stdout_buf = Append(@, c % 256)]

fflush(s) == [s EXCEPT !.tty = @ \o s.stdout_buf, !.stdout_buf = <<>>]

RECURSIVE putall(_, _)
putall(s, cs) == IF cs = <<>> THEN s ELSE putall(putc(s, Head(cs)), Tail(cs))

(* ------------------------- flags and mem_read -------------------------- *)

\* The slip the flag helper invites: the POS and NEG branches exchanged.
update_flags_swapped(s, r) ==
  [s EXCEPT !.reg[R_COND] =
     IF s.reg[r] = 0 THEN FL_ZRO
     ELSE IF Shr(s.reg[r], 15) # 0 THEN FL_POS
     ELSE FL_NEG]

update_flags(s, r) ==
  [s EXCEPT !.reg[R_COND] =
     IF s.reg[r] = 0 THEN FL_ZRO
     ELSE IF Shr(s.reg[r], 15) # 0 THEN FL_NEG
     ELSE FL_POS]

mem_write(s, address, val) == Store(s, address, val)

\* A plausible slip: the poll is run for a read of either keyboard register.
mem_read_polls_both(s, address) ==
  LET s1 ==
        IF address = MR_KBSR \/ address = MR_KBDR
        THEN IF check_key(s) # 0
             THEN LET s2 == Store(s, MR_KBSR, Shl(1, 15))
                      s3 == getchar(s2)
                  IN Store(s3, MR_KBDR, u16(s3.ret))
             ELSE Store(s, MR_KBSR, 0)
        ELSE s
  IN [s1 EXCEPT !.ret = Index(s1, address)]

mem_read(s, address) ==
  LET s1 ==
        IF address = MR_KBSR
        THEN IF check_key(s) # 0
             THEN LET s2 == Store(s, MR_KBSR, Shl(1, 15))
                      s3 == getchar(s2)
                  IN Store(s3, MR_KBDR, u16(s3.ret))
             ELSE Store(s, MR_KBSR, 0)
        ELSE s
  IN [s1 EXCEPT !.ret = Index(s1, address)]

(* ---------------------------- instructions ---------------------------- *)

\* Bits hi..lo of an instruction word: (instr >> lo) & mask.
Field(w, lo, mask) == BitAnd(Shr(w, lo), mask)

\* A plausible slip: the immediate is not sign-extended.
ADD_zero_extended(s, i) ==
  LET dr == Field(i, 9, 7)
      sr1 == Field(i, 6, 7)
      imm_flag == Field(i, 5, 1)
      s1 == IF imm_flag = 0
            THEN [s EXCEPT !.reg[dr] = u16(s.reg[sr1] + s.reg[Field(i, 0, 7)])]
            ELSE [s EXCEPT !.reg[dr] = u16(s.reg[sr1] + BitAnd(i, 31))]
  IN update_flags(s1, dr)

ADD(s, i) ==
  LET dr == Field(i, 9, 7)
      sr1 == Field(i, 6, 7)
      imm_flag == Field(i, 5, 1)
      s1 == IF imm_flag = 0
            THEN [s EXCEPT !.reg[dr] = u16(s.reg[sr1] + s.reg[Field(i, 0, 7)])]
            ELSE [s EXCEPT !.reg[dr] =
                    u16(s.reg[sr1] + sign_extend(BitAnd(i, 31), 5))]
  IN update_flags(s1, dr)

AND(s, i) ==
  LET dr == Field(i, 9, 7)
      sr1 == Field(i, 6, 7)
      imm_flag == Field(i, 5, 1)
      s1 == IF imm_flag = 0
            THEN [s EXCEPT !.reg[dr] = BitAnd(s.reg[sr1], s.reg[Field(i, 0, 7)])]
            ELSE [s EXCEPT !.reg[dr] =
                    BitAnd(s.reg[sr1], sign_extend(BitAnd(i, 31), 5))]
  IN update_flags(s1, dr)

NOT(s, i) ==
  LET dr == Field(i, 9, 7)
      sr == Field(i, 6, 7)
  IN update_flags([s EXCEPT !.reg[dr] = BitNot16(s.reg[sr])], dr)

BR(s, i) ==
  LET cond_flag == Field(i, 9, 7)
      pc_offset == sign_extend(BitAnd(i, 511), 9)
  IN IF BitAnd(cond_flag, s.reg[R_COND]) # 0
     THEN [s EXCEPT !.reg[R_PC] = u16(@ + pc_offset)]
     ELSE s

JMP(s, i) == [s EXCEPT !.reg[R_PC] = s.reg[Field(i, 6, 7)]]

\* A plausible slip: the target is read before the linkage is written.
JSR_target_first(s, i) ==
  LET baser == Field(i, 6, 7)
      long_pc_offset == sign_extend(BitAnd(i, 2047), 11)
      long_flag == Field(i, 11, 1)
      target == IF long_flag # 0 THEN u16(s.reg[R_PC] + long_pc_offset)
                ELSE s.reg[baser]
  IN [s EXCEPT !.reg[R_R7] = s.reg[R_PC], !.reg[R_PC] = target]

JSR(s, i) ==
  LET baser == Field(i, 6, 7)
      long_pc_offset == sign_extend(BitAnd(i, 2047), 11)
      long_flag == Field(i, 11, 1)
      s1 == [s EXCEPT !.reg[R_R7] = s.reg[R_PC]]
  IN IF long_flag # 0
     THEN [s1 EXCEPT !.reg[R_PC] = u16(@ + long_pc_offset)]
     ELSE [s1 EXCEPT !.reg[R_PC] = s1.reg[baser]]

\* A plausible slip: the offset is taken from the instruction's own address.
LD_from_own_address(s, i) ==
  LET dr == Field(i, 9, 7)
      pc_offset == sign_extend(BitAnd(i, 511), 9)
      s1 == mem_read(s, u16(s.reg[R_PC] - 1 + pc_offset))
  IN update_flags([s1 EXCEPT !.reg[dr] = s1.ret], dr)

LD(s, i) ==
  LET dr == Field(i, 9, 7)
      pc_offset == sign_extend(BitAnd(i, 511), 9)
      s1 == mem_read(s, u16(s.reg[R_PC] + pc_offset))
  IN update_flags([s1 EXCEPT !.reg[dr] = s1.ret], dr)

LDI(s, i) ==
  LET dr == Field(i, 9, 7)
      pc_offset == sign_extend(BitAnd(i, 511), 9)
      s1 == mem_read(s, u16(s.reg[R_PC] + pc_offset))
      s2 == mem_read(s1, s1.ret)
  IN update_flags([s2 EXCEPT !.reg[dr] = s2.ret], dr)

LDR(s, i) ==
  LET dr == Field(i, 9, 7)
      baser == Field(i, 6, 7)
      offset == sign_extend(BitAnd(i, 63), 6)
      s1 == mem_read(s, u16(s.reg[baser] + offset))
  IN update_flags([s1 EXCEPT !.reg[dr] = s1.ret], dr)

LEA(s, i) ==
  LET dr == Field(i, 9, 7)
      pc_offset == sign_extend(BitAnd(i, 511), 9)
  IN update_flags([s EXCEPT !.reg[dr] = u16(s.reg[R_PC] + pc_offset)], dr)

ST(s, i) ==
  LET sr == Field(i, 9, 7)
      pc_offset == sign_extend(BitAnd(i, 511), 9)
  IN mem_write(s, u16(s.reg[R_PC] + pc_offset), s.reg[sr])

STI(s, i) ==
  LET sr == Field(i, 9, 7)
      pc_offset == sign_extend(BitAnd(i, 511), 9)
      s1 == mem_read(s, u16(s.reg[R_PC] + pc_offset))
  IN mem_write(s1, s1.ret, s1.reg[sr])

STR(s, i) ==
  LET sr == Field(i, 9, 7)
      baser == Field(i, 6, 7)
      offset == sign_extend(BitAnd(i, 63), 6)
  IN mem_write(s, u16(s.reg[baser] + offset), s.reg[sr])

(* -------------------------------- traps -------------------------------- *)

\* Conversion of an int to the build's plain char.
to_char(x) ==
  LET b == x % 256
  IN IF char_signed /\ b >= 128 THEN b - 256 ELSE b

\* "HALT\n", as puts writes it, and IN's prompt, as character codes.
HaltText == <<72, 65, 76, 84, 10>>
PromptText ==
  <<69, 110, 116, 101, 114, 32, 97, 32, 99, 104, 97, 114, 97, 99, 116, 101,
    114, 58, 32>>

\* The first index past the storage the model tracks behind the array.
Horizon == UINT16_MAX + R_COUNT + (IF layout = "pad" THEN 1 ELSE 0)

\* The words `while (*c) ... ++c` visits from the pointer memory + c. The
\* pointer is not reduced modulo 2^16: it walks out of the array. The scan
\* is followed up to the first untracked word, which holds `unknown`.
RECURSIVE Scan(_, _, _)
Scan(s, c, unknown) ==
  LET w == IF InArray(c) THEN Cell(s.memory, c)
           ELSE Beyond(s, c - UINT16_MAX, unknown)
  IN IF w = 0 THEN <<>>
     ELSE IF c >= Horizon THEN <<w>>
     ELSE <<w>> \o Scan(s, c + 1, unknown)

\* A plausible slip: a trap that loads R0 also sets the flags.
GETC_sets_flags(s) ==
  LET s1 == getchar(s)
  IN update_flags([s1 EXCEPT !.reg[R_R0] = u16(s1.ret)], R_R0)

GETC(s) ==
  LET s1 == getchar(s)
  IN [s1 EXCEPT !.reg[R_R0] = u16(s1.ret)]

OUT(s) == fflush(putc(s, to_char(s.reg[R_R0])))

RECURSIVE puts_words(_, _)
puts_words(s, ws) ==
  IF ws = <<>> THEN s
  ELSE puts_words(putc(s, to_char(Head(ws))), Tail(ws))

PUTS(s, unknown) == fflush(puts_words(s, Scan(s, s.reg[R_R0], unknown)))

\* The handler of TRAP_IN (IN is a reserved word here).
IN_(s) ==
  LET s1 == putall(s, PromptText)
      s2 == getchar(s1)
      c == to_char(s2.ret)
      s3 == putc(s2, c)
  IN [s3 EXCEPT !.reg[R_R0] = u16(c)]

RECURSIVE putsp_words(_, _)
putsp_words(s, ws) ==
  IF ws = <<>> THEN s
  ELSE LET char1 == to_char(BitAnd(Head(ws), 255))
           char2 == to_char(Shr(Head(ws), 8))
           s1 == putc(s, char1)
           s2 == IF char2 # 0 THEN putc(s1, char2) ELSE s1
       IN putsp_words(s2, Tail(ws))

PUTSP(s, unknown) == fflush(putsp_words(s, Scan(s, s.reg[R_R0], unknown)))

\* A plausible slip: HALT reports and forgets to stop the loop.
HALT_keeps_running(s) == fflush(putall(s, HaltText))

HALT(s) == [fflush(putall(s, HaltText)) EXCEPT !.running = 0]

(* ------------------------------ the loader ----------------------------- *)

Min(a, b) == IF a <= b THEN a ELSE b

\* read_image_file on a file given as the uint16_t values fread delivers:
\* the origin, then the program's words, each with its bytes in file order.
read_image_file(m, file) ==
  LET origin == swap16(file[1])
      max_read == UINT16_MAX - origin
      read == Min(Len(file) - 1, max_read)
      loaded == origin .. (origin + read - 1)
  IN [a \in (DOMAIN m) \cup loaded |->
        IF a \in loaded THEN swap16(file[a - origin + 2]) ELSE m[a]]

\* main's loop over argv: each image in turn into the same memory.
RECURSIVE read_images(_, _)
read_images(m, files) ==
  IF files = <<>> THEN m
  ELSE read_images(read_image_file(m, Head(files)), Tail(files))

(* ------------------------- images and host input ----------------------- *)

\* An image file holding `words` for address `origin` on, big-endian, as
\* fread delivers it to the little-endian host: every word byte-swapped.
ImageFile(origin, words) ==
  <<swap16(origin)>> \o [k \in 1 .. Len(words) |-> swap16(words[k])]

\* The instruction words tried in the free slot of each program: every
\* opcode, every trap vector and an undefined one, both operand modes,
\* positive and negative fields, and the registers the programs set up.
Words ==
  { \h0000, \h0003, \h0E02, \h0FFE, \h0402, \h0202, \h0802,          \* BR
    \h1021, \h103F, \h1000, \h1401, \h1242, \h1E70,                  \* ADD
    \h5020, \h503F, \h5001, \h5482, \h5270,                          \* AND
    \h903F, \h927F, \h94BF, \h907F,                                  \* NOT
    \h2002, \h21FF, \h2601,                                          \* LD
    \hA0FF, \hA001,                                                  \* LDI
    \h6040, \h6400, \h607F, \h6041,                                  \* LDR
    \hE002, \hE1FF, \hEF00,                                          \* LEA
    \h3002, \h3201, \h31FF,                                          \* ST
    \hB002, \hB201, \hB0FF,                                          \* STI
    \h7040, \h7200, \h7280, \h7041, \h7440,                          \* STR
    \hC000, \hC040, \hC080, \hC1C0,                                  \* JMP
    \h4802, \h4FFF, \h4000, \h4040, \h41C0,                          \* JSR
    \h8000, \hD000,                                                  \* RTI RES
    \hF020, \hF021, \hF022, \hF023, \hF024, \hF025,                  \* TRAP
    \hF000, \hF026, \hF0FF }

\* Values the set-up programs load into R0, R1, R2 before the free slot.
RegisterData ==
  { <<\h7FFF, \hFFFF, \h8000>>,
    <<\hFE00, \hFE02, \h0001>>,
    <<\hFFFE, \h0041, \h4142>> }

\* The command lines: the image files named on each, in order, for the
\* free word w.
Programs(w) ==
  \* w first, with the cells of an indirect load far behind it
  { << ImageFile(\h3000, <<w, \hF025>>),
       ImageFile(\h3100, <<\h3200>>),
       ImageFile(\h3200, <<\h00AB>>) >>,
  \* LEA R0 to a string; w; HALT; "HI"
    << ImageFile(\h3000, <<\hE002, w, \hF025, \h0048, \h0049, \h0000>>) >>,
  \* R0 = KBSR, R1 = 0x1234, STR R1 to KBSR; w; HALT
    << ImageFile(\h3000,
         <<\h2004, \h2204, \h7200, w, \hF025, \hFE00, \h1234>>) >>,
  \* R0 = 0xFFFD; w; HALT; and "HI!" in the last three words of the
  \* address space
    << ImageFile(\h3000, <<\h2002, w, \hF025, \hFFFD>>),
       ImageFile(\hFFFD, <<\h0048, \h0049, \h0021>>) >> }
  \cup
  \* LD R0, LD R1, LD R2; w; HALT; the three values
  { << ImageFile(\h3000,
         <<\h2004, \h2204, \h2404, w, \hF025, d[1], d[2], d[3]>>) >>
    : d \in RegisterData }

CommandLines == UNION { Programs(w) : w \in Words }

\* The array as static storage starts: every cell zero.
Zeroed == [a \in {} |-> 0]

(* ----------------------------- the terminal ---------------------------- *)

\* The attributes of the terminal the machine is started on, as tcgetattr
\* reports them: its local flags and all the rest of the structure.
HostTio == [c_lflag |-> {"ICANON", "ECHO", "ISIG"}, other |-> "host"]

\* A struct termios in static storage no call has filled: all zero.
ZeroTio == [c_lflag |-> {}, other |-> "zero"]

\* new_tio.c_lflag &= ~ICANON & ~ECHO
RawOf(tio) == [tio EXCEPT !.c_lflag = @ \ {"ICANON", "ECHO"}]

\* No call of sign_extend on its own is under way.
NoUnit == [x |-> 0, bit_count |-> 1, ret |-> 0, returned |-> FALSE]

\* Bytes the host may hold ready: one below 0x80 and one above.
InBytes == { \h41, \hE9 }

RECURSIVE SeqsUpTo(_, _)
SeqsUpTo(S, n) ==
  IF n = 0 THEN { <<>> }
  ELSE LET shorter == SeqsUpTo(S, n - 1)
       IN shorter \cup { Append(q, b) : q \in shorter, b \in S }

Inputs == SeqsUpTo(InBytes, MaxInput)

(* --------------------------------- main -------------------------------- *)

\* The state main enters its loop in: static storage zeroed, running = 1,
\* the images loaded, the handler installed, the terminal's attributes
\* saved and the terminal raw, PC at PC_START.
Init ==
  /\ reg = [r \in 0 .. (R_COUNT - 1) |-> IF r = R_PC THEN PC_START ELSE 0]
  /\ argv \in CommandLines
  /\ argi = Len(argv) + 1
  /\ memory = read_images(Zeroed, argv)
  /\ handler = TRUE
  /\ original_tio = HostTio
  /\ termios = RawOf(HostTio)
  /\ unit = NoUnit
  /\ pad = 0
  /\ running = 1
  /\ stdin_fd \in Inputs
  /\ stdin_buf = <<>>
  /\ stdout_buf = <<>>
  /\ tty = <<>>
  /\ pc = "loop"
  /\ instr = 0
  /\ steps = 0
  /\ layout \in {"pad", "reg"}
  /\ eof \in BOOLEAN
  /\ char_signed \in BOOLEAN

\* while (running): the loop takes another turn.
Turn == pc = "loop" /\ running # 0 /\ steps < MaxSteps

\* uint16_t instr = mem_read(reg[R_PC]++): the machine after the fetch,
\* the word fetched in ret.
Fetched == mem_read([Cur EXCEPT !.reg[R_PC] = u16(@ + 1)], reg[R_PC])

Op == Shr(Fetched.ret, 12)
Vector == BitAnd(Fetched.ret, 255)

\* The end of one turn of the loop that leaves the machine as s.
Commit(s) ==
  /\ reg' = s.reg
  /\ memory' = s.memory
  /\ pad' = s.pad
  /\ running' = s.running
  /\ stdin_fd' = s.stdin_fd
  /\ stdin_buf' = s.stdin_buf
  /\ stdout_buf' = s.stdout_buf
  /\ tty' = s.tty
  /\ instr' = Fetched.ret
  /\ steps' = steps + 1
  /\ pc' = "loop"
  /\ UNCHANGED <<env, termios, setup>>

DoADD == Turn /\ Op = OP_ADD /\ Commit(ADD(Fetched, Fetched.ret))
DoAND == Turn /\ Op = OP_AND /\ Commit(AND(Fetched, Fetched.ret))
DoNOT == Turn /\ Op = OP_NOT /\ Commit(NOT(Fetched, Fetched.ret))
DoBR == Turn /\ Op = OP_BR /\ Commit(BR(Fetched, Fetched.ret))
DoJMP == Turn /\ Op = OP_JMP /\ Commit(JMP(Fetched, Fetched.ret))
DoJSR == Turn /\ Op = OP_JSR /\ Commit(JSR(Fetched, Fetched.ret))
DoLD == Turn /\ Op = OP_LD /\ Commit(LD(Fetched, Fetched.ret))
DoLDI == Turn /\ Op = OP_LDI /\ Commit(LDI(Fetched, Fetched.ret))
DoLDR == Turn /\ Op = OP_LDR /\ Commit(LDR(Fetched, Fetched.ret))
DoLEA == Turn /\ Op = OP_LEA /\ Commit(LEA(Fetched, Fetched.ret))
DoST == Turn /\ Op = OP_ST /\ Commit(ST(Fetched, Fetched.ret))
DoSTI == Turn /\ Op = OP_STI /\ Commit(STI(Fetched, Fetched.ret))
DoSTR == Turn /\ Op = OP_STR /\ Commit(STR(Fetched, Fetched.ret))

\* GETC and IN wait in getchar until the host has a byte or input ends.
DoGETC ==
  /\ Turn /\ Op = OP_TRAP /\ Vector = TRAP_GETC
  /\ ~getchar_blocks(Fetched)
  /\ Commit(GETC(Fetched))

DoOUT == Turn /\ Op = OP_TRAP /\ Vector = TRAP_OUT /\ Commit(OUT(Fetched))

\* What lies behind the tracked storage is the build's: any word.
DoPUTS ==
  /\ Turn /\ Op = OP_TRAP /\ Vector = TRAP_PUTS
  /\ \E unknown \in {0, 63} : Commit(PUTS(Fetched, unknown))

DoIN ==
  /\ Turn /\ Op = OP_TRAP /\ Vector = TRAP_IN
  /\ ~getchar_blocks(Fetched)
  /\ Commit(IN_(Fetched))

DoPUTSP ==
  /\ Turn /\ Op = OP_TRAP /\ Vector = TRAP_PUTSP
  /\ \E unknown \in {0, 63} : Commit(PUTSP(Fetched, unknown))

DoHALT == Turn /\ Op = OP_TRAP /\ Vector = TRAP_HALT /\ Commit(HALT(Fetched))

\* What LC-3 hardware does and this machine does not: a trap saves the
\* return address in R7.
DoTrapOther_saves_R7 ==
  /\ Turn /\ Op = OP_TRAP
  /\ Vector \notin TRAP_GETC .. TRAP_HALT
  /\ Commit([Fetched EXCEPT !.reg[R_R7] = Fetched.reg[R_PC]])

\* The inner switch has no default: any other vector does nothing.
DoTrapOther ==
  /\ Turn /\ Op = OP_TRAP
  /\ Vector \notin TRAP_GETC .. TRAP_HALT
  /\ Commit(Fetched)

\* case OP_RES, case OP_RTI, default: abort(). The process dies in the
\* state the fetch left.
DoAbort ==
  /\ Turn /\ Op \in {OP_RES, OP_RTI}
  /\ reg' = Fetched.reg
  /\ memory' = Fetched.memory
  /\ pad' = Fetched.pad
  /\ stdin_fd' = Fetched.stdin_fd
  /\ stdin_buf' = Fetched.stdin_buf
  /\ instr' = Fetched.ret
  /\ steps' = steps + 1
  /\ pc' = "aborted"
  /\ UNCHANGED <<running, stdout_buf, tty, env, termios, setup>>

\* running is 0: the loop ends, restore_input_buffering puts
\* original_tio back, main returns and exit flushes stdout.
Return ==
  /\ pc = "loop" /\ running = 0
  /\ pc' = "done"
  /\ termios' = original_tio
  /\ tty' = tty \o stdout_buf
  /\ stdout_buf' = <<>>
  /\ UNCHANGED <<reg, memory, pad, running, stdin_fd, stdin_buf, instr, steps,
                 env, setup>>

Next ==
  \/ DoADD \/ DoAND \/ DoNOT \/ DoBR \/ DoJMP \/ DoJSR
  \/ DoLD \/ DoLDI \/ DoLDR \/ DoLEA \/ DoST \/ DoSTI \/ DoSTR
  \/ DoGETC \/ DoOUT \/ DoPUTS \/ DoIN \/ DoPUTSP \/ DoHALT \/ DoTrapOther
  \/ DoAbort \/ Return

Spec == Init /\ [][Next]_vars

(* ------------------------ main from its first line --------------------- *)

\* The process as it enters main: static storage as the loader left it
\* (reg, memory and original_tio zero, running 1), nothing loaded, no
\* handler, the terminal as the host has it.
InitMain ==
  /\ reg = [r \in 0 .. (R_COUNT - 1) |-> 0]
  /\ argv \in CommandLines
  /\ argi = 1
  /\ memory = Zeroed
  /\ pad = 0
  /\ running = 1
  /\ stdin_fd \in Inputs
  /\ stdin_buf = <<>>
  /\ stdout_buf = <<>>
  /\ tty = <<>>
  /\ pc = "load"
  /\ instr = 0
  /\ steps = 0
  /\ layout \in {"pad", "reg"}
  /\ eof \in BOOLEAN
  /\ char_signed \in BOOLEAN
  /\ handler = FALSE
  /\ original_tio = ZeroTio
  /\ termios = HostTio
  /\ unit = NoUnit

\* for (int j = 1; j < argc; ++j): read_image(argv[j]).
LoadImage ==
  /\ pc = "load" /\ argi <= Len(argv)
  /\ memory' = read_image_file(memory, argv[argi])
  /\ argi' = argi + 1
  /\ UNCHANGED <<reg, pad, running, stdin_fd, stdin_buf, stdout_buf, tty, pc,
                 instr, steps, env, termios, original_tio, handler, argv,
                 unit>>

\* The loop over argv is through.
LoadDone ==
  /\ pc = "load" /\ argi > Len(argv)
  /\ pc' = "signal"
  /\ UNCHANGED <<reg, memory, pad, running, stdin_fd, stdin_buf, stdout_buf,
                 tty, instr, steps, env, termios, setup>>

\* signal(SIGINT, handle_interrupt)
InstallHandler ==
  /\ pc = "signal"
  /\ handler' = TRUE
  /\ pc' = "tcgetattr"
  /\ UNCHANGED <<reg, memory, pad, running, stdin_fd, stdin_buf, stdout_buf,
                 tty, instr, steps, env, termios, original_tio, argv, argi,
                 unit>>

\* disable_input_buffering, first call: tcgetattr(STDIN_FILENO,
\* &original_tio).
SaveAttributes ==
  /\ pc = "tcgetattr"
  /\ original_tio' = termios
  /\ pc' = "tcsetattr"
  /\ UNCHANGED <<reg, memory, pad, running, stdin_fd, stdin_buf, stdout_buf,
                 tty, instr, steps, env, termios, handler, argv, argi, unit>>

\* disable_input_buffering, the rest: new_tio is original_tio without
\* ICANON and ECHO, and tcsetattr installs it.
SetRaw ==
  /\ pc = "tcsetattr"
  /\ termios' = RawOf(original_tio)
  /\ pc' = "start"
  /\ UNCHANGED <<reg, memory, pad, running, stdin_fd, stdin_buf, stdout_buf,
                 tty, instr, steps, env, setup>>

\* reg[R_PC] = PC_START, and the loop begins.
Start ==
  /\ pc = "start"
  /\ reg' = [reg EXCEPT ![R_PC] = PC_START]
  /\ pc' = "loop"
  /\ UNCHANGED <<memory, pad, running, stdin_fd, stdin_buf, stdout_buf, tty,
                 instr, steps, env, termios, setup>>

\* SIGINT arrives while the handler is installed and the process lives,
\* between any two steps of main or while getchar waits: handle_interrupt
\* runs restore_input_buffering, prints a newline and calls exit(-2),
\* which flushes stdout.
Interrupt ==
  /\ handler
  /\ pc \in {"tcgetattr", "tcsetattr", "start", "loop"}
  /\ termios' = original_tio
  /\ tty' = tty \o stdout_buf \o <<10>>
  /\ stdout_buf' = <<>>
  /\ pc' = "interrupted"
  /\ UNCHANGED <<reg, memory, pad, running, stdin_fd, stdin_buf, instr, steps,
                 env, setup>>

NextMain ==
  \/ LoadImage \/ LoadDone \/ InstallHandler \/ SaveAttributes \/ SetRaw
  \/ Start \/ Interrupt \/ Next

SpecMain == InitMain /\ [][NextMain]_vars

(* ------------------------- sign_extend on its own ---------------------- *)

\* Arguments for x: for every width the largest positive field, the
\* smallest negative one and all ones, and words with bits above the field.
SignInputs ==
  UNION { { 2 ^ (n - 1) - 1, 2 ^ (n - 1), 2 ^ n - 1 } : n \in 1 .. 16 }
  \cup { 0, \h5555, \hAAAA, \hABCD, \h8001, \h0412 }

\* A call sign_extend(x, bit_count) about to be made, the machine itself
\* idle in its static state.
InitSign ==
  /\ unit \in [x : SignInputs, bit_count : 1 .. 16, ret : {0},
               returned : {FALSE}]
  /\ reg = [r \in 0 .. (R_COUNT - 1) |-> 0]
  /\ argv = <<>>
  /\ argi = 1
  /\ memory = Zeroed
  /\ pad = 0
  /\ running = 1
  /\ stdin_fd = <<>>
  /\ stdin_buf = <<>>
  /\ stdout_buf = <<>>
  /\ tty = <<>>
  /\ pc = "unit"
  /\ instr = 0
  /\ steps = 0
  /\ layout = "pad"
  /\ eof = FALSE
  /\ char_signed = TRUE
  /\ handler = FALSE
  /\ original_tio = ZeroTio
  /\ termios = HostTio

\* The call returns.
CallSignExtend ==
  /\ pc = "unit" /\ ~unit.returned
  /\ unit' = [unit EXCEPT !.ret = sign_extend(unit.x, unit.bit_count),
                          !.returned = TRUE]
  /\ UNCHANGED <<reg, memory, pad, running, stdin_fd, stdin_buf, stdout_buf,
                 tty, pc, instr, steps, env, termios, original_tio, handler,
                 argv, argi>>

SpecSign == InitSign /\ [][CallSignExtend]_vars

(* ------------------------------- properties ---------------------------- *)

\* Instruction fields read arithmetically, apart from the decoder above.
Opcode(w) == w \div 4096
Bits(w, lo, n) == (w \div (2 ^ lo)) % (2 ^ n)
\* The value of an n-bit two's-complement field f.
Signed(f, n) == IF f >= 2 ^ (n - 1) THEN f - 2 ^ n ELSE f
Wrap(x) == x % 65536

\* The sign classification of a 16-bit value.
SignClass(v) == IF v = 0 THEN FL_ZRO ELSE IF v >= 32768 THEN FL_NEG ELSE FL_POS

\* This step is a turn of the loop that fetched a word with opcode in ops
\* and carried it out.
Executes(ops) == steps' = steps + 1 /\ pc' = "loop" /\ Opcode(instr') \in ops

\* The address the step's instruction was fetched from, and the PC its
\* execution starts with.
FetchAddr == reg[R_PC]
IncPC == Wrap(reg[R_PC] + 1)

\* C1: after ADD, AND, NOT, LD, LDI, LDR or LEA, COND is one of POS, ZRO,
\* NEG and is the sign classification of the new value of reg[DR].
C1_FlagsFollowDR ==
  (steps > 0 /\ pc = "loop"
     /\ Opcode(instr) \in {OP_ADD, OP_AND, OP_NOT, OP_LD, OP_LDI, OP_LDR, OP_LEA})
  => /\ reg[R_COND] \in {FL_POS, FL_ZRO, FL_NEG}
     /\ reg[R_COND] = SignClass(reg[Bits(instr, 9, 3)])

\* An LDR has just loaded a word with bit 15 set and COND is NEG.
C1_Witness ==
  /\ steps > 0 /\ pc = "loop" /\ Opcode(instr) = OP_LDR
  /\ reg[Bits(instr, 9, 3)] >= 32768
  /\ reg[R_COND] = FL_NEG

\* C2: ST, STI, STR, BR, JMP, JSR/JSRR and TRAP (any vector) leave COND as
\* it was before the instruction.
C2_CondUnchanged ==
  [][Executes({OP_ST, OP_STI, OP_STR, OP_BR, OP_JMP, OP_JSR, OP_TRAP})
       => reg'[R_COND] = reg[R_COND]]_vars

\* A STR has run while COND was NEG from an earlier load, and it still is.
C2_Witness ==
  /\ steps > 0 /\ pc = "loop" /\ Opcode(instr) = OP_STR
  /\ reg[R_COND] = FL_NEG

\* C3: the machine starts with R0..R7 = 0, COND = ZRO, PC = 0x3000 and
\* running true, and COND is one of POS, ZRO, NEG in every state.
C3_CondIsAFlag ==
  /\ steps = 0 =>
       /\ \A r \in R_R0 .. R_R7 : reg[r] = 0
       /\ reg[R_COND] = FL_ZRO
       /\ reg[R_PC] = PC_START
       /\ running # 0
  /\ reg[R_COND] \in {FL_POS, FL_ZRO, FL_NEG}

\* C4: a BR with mask 0 leaves PC at the incremented PC, a BR with mask 7
\* moves it by the sign-extended offset, and in general the branch is taken
\* iff mask AND COND is nonzero; in every state, the first fetch included.
C4_BranchByMask ==
  [][Executes({OP_BR}) =>
       LET mask == Bits(instr', 9, 3)
           target == Wrap(IncPC + Signed(Bits(instr', 0, 9), 9))
       IN /\ mask = 0 => reg'[R_PC] = IncPC
          /\ mask = 7 => reg'[R_PC] = target
          /\ reg'[R_PC] = IF BitAnd(mask, reg[R_COND]) # 0 THEN target
                          ELSE IncPC]_vars

\* C5: after JSR or JSRR at address a, R7 = a + 1; JSR sets PC to
\* a + 1 + offset, JSRR to reg[BaseR] as it is after the linkage write
\* (a + 1 when BaseR is R7).
C5_Linkage ==
  [][Executes({OP_JSR}) =>
       LET baser == Bits(instr', 6, 3)
       IN /\ reg'[R_R7] = IncPC
          /\ reg'[R_PC] =
               IF Bits(instr', 11, 1) = 1
               THEN Wrap(IncPC + Signed(Bits(instr', 0, 11), 11))
               ELSE IF baser = R_R7 THEN IncPC ELSE reg[baser]]_vars

\* JSRR R7 was the first instruction: R7 and PC both hold 0x3001.
C5_Witness ==
  /\ steps = 1 /\ instr = \h41C0
  /\ reg[R_R7] = \h3001 /\ reg[R_PC] = \h3001

\* The word a load or store at 16-bit address a deals with, in a machine
\* with registers rg, memory m and padding p.
WordAt(rg, m, p, a) ==
  IF a < UINT16_MAX THEN Cell(m, a)
  ELSE IF layout = "pad" THEN p
  ELSE rg[R_R0]

Before(a) == WordAt(reg, memory, pad, a)
After(a) == WordAt(reg', memory', pad', a)

\* No cell of the array changes in this step.
MemorySame ==
  \A a \in (DOMAIN memory) \cup (DOMAIN memory') :
     Cell(memory', a) = Cell(memory, a)

\* C6: ADD and AND write the sum modulo 2^16, respectively the bitwise AND,
\* of reg[SR1] and reg[SR2] (bit 5 clear) or the sign-extended imm5 (bit 5
\* set) into reg[DR]; no other register of R0..R7 and no memory cell changes.
C6_AddAnd ==
  [][Executes({OP_ADD, OP_AND}) =>
       LET dr == Bits(instr', 9, 3)
           first == reg[Bits(instr', 6, 3)]
           second == IF Bits(instr', 5, 1) = 0 THEN reg[Bits(instr', 0, 3)]
                     ELSE Wrap(Signed(Bits(instr', 0, 5), 5))
       IN /\ reg'[dr] = IF Opcode(instr') = OP_ADD THEN Wrap(first + second)
                        ELSE BitAnd(first, second)
          /\ \A r \in (R_R0 .. R_R7) \ {dr} : reg'[r] = reg[r]
          /\ MemorySame
          /\ pad' = pad]_vars

\* ADD R0, R0, #1 has run on R0 = 0x7FFF: R0 = 0x8000 and COND = NEG.
C6_Witness ==
  /\ steps > 0 /\ pc = "loop" /\ instr = \h1021
  /\ reg[R_R0] = \h8000 /\ reg[R_COND] = FL_NEG

\* C7: the instruction fetched from a runs with PC = a + 1, and LEA, LD,
\* LDI, ST and STI form their address a + 1 + sext9(offset) from it. A read
\* of KBSR on the way yields the word the poll has just put there.
C7_PCRelative ==
  [][Executes({OP_LEA, OP_LD, OP_LDI, OP_ST, OP_STI}) =>
       LET op == Opcode(instr')
           r == Bits(instr', 9, 3)
           ea == Wrap(FetchAddr + 1 + Signed(Bits(instr', 0, 9), 9))
       IN /\ reg'[R_PC] = IncPC
          /\ op = OP_LEA => reg'[r] = ea
          /\ op = OP_LD =>
               reg'[r] = IF ea = MR_KBSR THEN After(ea) ELSE Before(ea)
          /\ op = OP_LDI =>
               reg'[r] = IF ea = MR_KBSR THEN After(After(ea))
                         ELSE IF Before(ea) = MR_KBSR THEN After(MR_KBSR)
                         ELSE Before(Before(ea))
          /\ op = OP_ST => After(ea) = reg[r]
          /\ op = OP_STI =>
               After(IF ea = MR_KBSR THEN After(ea) ELSE Before(ea)) = reg[r]]_vars

\* LDI R0 with offset 0xFF was the first instruction, at 0x3000, with
\* memory[0x3100] = 0x3200 and memory[0x3200] = 0x00AB: R0 = 0x00AB.
C7_Witness ==
  /\ steps = 1 /\ instr = \hA0FF
  /\ Cell(memory, \h3100) = \h3200 /\ Cell(memory, \h3200) = \h00AB
  /\ reg[R_R0] = \h00AB /\ reg[R_COND] = FL_POS

\* C8: the loop stops exactly on TRAP 0x25 and on a fetched RTI or RES;
\* once it has stopped nothing is fetched and no register or memory cell
\* changes; after any other instruction running is still true and the loop
\* is at its head for the next fetch.
C8_StopsOnlyOnHaltOrIllegal ==
  [][/\ steps' = steps + 1 =>
          LET halt == Opcode(instr') = OP_TRAP /\ Bits(instr', 0, 8) = TRAP_HALT
              illegal == Opcode(instr') \in {OP_RTI, OP_RES}
          IN /\ halt => running' = 0 /\ pc' = "loop"
             /\ illegal => pc' = "aborted"
             /\ ~halt /\ ~illegal => running' # 0 /\ pc' = "loop"
     /\ (running = 0 \/ pc # "loop") =>
          /\ UNCHANGED <<reg, memory, pad, instr, steps, running>>
          /\ pc' # "loop"]_vars

\* HALT has run and main has returned.
C8_Witness ==
  /\ instr = \hF025 /\ running = 0 /\ pc = "done"
  /\ tty = HaltText

\* C9: every 16-bit address has a cell of the memory: a store (ST, STI,
\* STR) to any address, 0xFFFF included, lands in the memory and touches
\* no state outside it, and a load from that address returns what was stored.
C9_StoresStayInMemory ==
  [][Executes({OP_ST, OP_STI, OP_STR}) =>
       /\ pad' = pad
       /\ \A r \in R_R0 .. R_R7 : reg'[r] = reg[r]]_vars

\* The bytes the host holds for the program, in order.
HostInput == stdin_buf \o stdin_fd

\* C10: an LDR of KBSR polls the host: with a byte b ready it leaves
\* memory[KBSR] = 0x8000 and memory[KBDR] = b, consumes b and loads 0x8000;
\* with none ready it leaves memory[KBSR] = 0, memory[KBDR] as it was, and
\* loads 0.
C10_KeyboardPoll ==
  [][(/\ Executes({OP_LDR})
      /\ FetchAddr # MR_KBSR
      /\ Wrap(reg[Bits(instr', 6, 3)] + Signed(Bits(instr', 0, 6), 6)) = MR_KBSR)
     => IF HostInput # <<>>
        THEN /\ Cell(memory', MR_KBSR) = \h8000
             /\ Cell(memory', MR_KBDR) = Head(HostInput)
             /\ stdin_buf' \o stdin_fd' = Tail(HostInput)
             /\ reg'[Bits(instr', 9, 3)] = \h8000
        ELSE /\ Cell(memory', MR_KBSR) = 0
             /\ Cell(memory', MR_KBDR) = Cell(memory, MR_KBDR)
             /\ reg'[Bits(instr', 9, 3)] = 0]_vars

\* No byte of the host's input is taken in this step.
InputSame == stdin_fd' = stdin_fd /\ stdin_buf' = stdin_buf

\* C11: only a read of KBSR has a side effect. LD and LDR of any other
\* address, KBDR included, load the word that is there, change no memory
\* cell and take no input; ST and STR change no memory cell but their
\* target and take no input.
C11_OnlyKbsrReadsPoll ==
  [][(Executes({OP_LD, OP_LDR, OP_ST, OP_STR}) /\ FetchAddr # MR_KBSR) =>
       LET op == Opcode(instr')
           r == Bits(instr', 9, 3)
           ea == IF op \in {OP_LD, OP_ST}
                 THEN Wrap(IncPC + Signed(Bits(instr', 0, 9), 9))
                 ELSE Wrap(reg[Bits(instr', 6, 3)]
                           + Signed(Bits(instr', 0, 6), 6))
       IN /\ (op \in {OP_LD, OP_LDR} /\ ea # MR_KBSR) =>
               /\ reg'[r] = Before(ea)
               /\ MemorySame
               /\ InputSame
          /\ op \in {OP_ST, OP_STR} =>
               /\ \A a \in ((DOMAIN memory) \cup (DOMAIN memory')) \ {ea} :
                    Cell(memory', a) = Cell(memory, a)
               /\ InputSame
          /\ \A k \in {MR_KBSR, MR_KBDR} :
               (op \in {OP_LD, OP_LDR} /\ ea # MR_KBSR) =>
                 Cell(memory', k) = Cell(memory, k)]_vars

\* An LDR of KBDR has run while the host held a byte ready: the byte is
\* still there and KBSR and KBDR are as the guest's store left them.
C11_Witness ==
  /\ steps > 0 /\ pc = "loop" /\ instr = \h6040
  /\ reg[R_R1] = MR_KBDR
  /\ stdin_fd # <<>> /\ stdin_buf = <<>>
  /\ Cell(memory, MR_KBDR) = 0 /\ reg[R_R0] = 0

\* C12: a TRAP with a vector outside 0x20..0x25 changes nothing but the
\* PC, which is the incremented PC: R0..R7, COND, memory, running and the
\* output are as before and the loop goes on; and no TRAP writes R7.
C12_UnknownTrapIsNoOp ==
  [][(steps' = steps + 1 /\ Opcode(instr') = OP_TRAP) =>
       /\ reg'[R_R7] = reg[R_R7]
       /\ Bits(instr', 0, 8) \notin TRAP_GETC .. TRAP_HALT =>
            /\ \A r \in R_R0 .. R_R7 : reg'[r] = reg[r]
            /\ reg'[R_COND] = reg[R_COND]
            /\ reg'[R_PC] = IncPC
            /\ MemorySame /\ pad' = pad
            /\ running' = running /\ running' # 0 /\ pc' = "loop"
            /\ stdout_buf' = stdout_buf /\ tty' = tty
            /\ InputSame]_vars

\* TRAP 0xFF has run after three loads set R0..R2, and they are intact.
C12_Witness ==
  /\ steps = 4 /\ pc = "loop" /\ instr = \hF0FF
  /\ reg[R_R0] = \h7FFF /\ reg[R_R1] = \hFFFF /\ reg[R_R2] = \h8000
  /\ reg[R_R7] = 0 /\ reg[R_COND] = FL_NEG /\ reg[R_PC] = \h3004
  /\ tty = <<>> /\ running = 1

\* The process has ended, whichever way.
Terminated == pc \in {"done", "aborted", "interrupted"}

\* A TRAP with one of these vectors has just run.
TrapRan(vectors) ==
  /\ steps' = steps + 1 /\ pc' = "loop"
  /\ Opcode(instr') = OP_TRAP /\ Bits(instr', 0, 8) \in vectors

\* C13: on every exit path taken once the terminal is raw (HALT, an
\* illegal opcode, an interrupt) the saved attributes are put back before
\* the process ends: no ended process leaves the terminal raw.
C13_TerminalRestoredAtExit == Terminated => termios = HostTio

\* C14: an interrupt at any point after the handler is installed makes the
\* handler install exactly the attributes the terminal had at startup.
C14_InterruptRestoresStartup == pc = "interrupted" => termios = HostTio

\* C15: when OUT, PUTS, IN, PUTSP or HALT has run, stdout is flushed: no
\* byte is left in its buffer at the next fetch.
C15_TrapsFlush ==
  [][TrapRan({TRAP_OUT, TRAP_PUTS, TRAP_IN, TRAP_PUTSP, TRAP_HALT}) =>
       stdout_buf' = <<>>]_vars

\* C16: when GETC or IN has read the byte b, any of 0..255, R0 is b
\* zero-extended, and R1..R7 and COND are as before.
C16_CharZeroExtended ==
  [][(TrapRan({TRAP_GETC, TRAP_IN}) /\ HostInput # <<>>) =>
       /\ reg'[R_R0] = Head(HostInput)
       /\ \A r \in (R_R1 .. R_R7) \cup {R_COND} : reg'[r] = reg[r]]_vars

\* C17: when standard input is at its end, GETC and IN yield the zero
\* character, R0 = 0, and the machine goes on.
C17_EofYieldsZero ==
  [][(TrapRan({TRAP_GETC, TRAP_IN}) /\ HostInput = <<>> /\ eof) =>
       reg'[R_R0] = 0 /\ running' # 0]_vars

\* The 16-bit word whose two bytes, in file order, fread delivered as v.
BigEndian(v) == (v % 256) * 256 + v \div 256

\* C18: loading an image with origin o and k words leaves memory[o + i]
\* equal to its i-th word for every i < min(k, 0x10000 - o), so an image
\* can fill memory up to 0xFFFF, and leaves every other cell as it was.
C18_ImageFillsToTop ==
  [][(pc = "load" /\ argi' = argi + 1) =>
       LET file == argv[argi]
           o == BigEndian(file[1])
           k == Len(file) - 1
           n == IF k <= 65536 - o THEN k ELSE 65536 - o
       IN /\ \A i \in 0 .. (n - 1) :
               Cell(memory', o + i) = BigEndian(file[i + 2])
          /\ \A a \in ((DOMAIN memory) \cup (DOMAIN memory'))
                        \ (o .. (o + n - 1)) :
               Cell(memory', a) = Cell(memory, a)]_vars

\* C19: for every 16-bit x and 1 <= n <= 16, sign_extend(x, n) is x when
\* bit n-1 of x is 0 and otherwise x with every bit from n up set, cut to
\* 16 bits; for the decoder's widths 5, 6, 9 and 11 and a field masked to
\* the width, that is the field's 16-bit two's-complement encoding.
C19_SignExtend ==
  unit.returned =>
    LET x == unit.x
        n == unit.bit_count
    IN /\ unit.ret = IF (x \div 2 ^ (n - 1)) % 2 = 0
                     THEN x
                     ELSE (x % 2 ^ n) + (65536 - 2 ^ n)
       /\ (n \in {5, 6, 9, 11} /\ x < 2 ^ n) =>
            unit.ret = (Signed(x, n) + 65536) % 65536

\* sign_extend(0x1F, 5) has returned 0xFFFF: the field -1.
C19_Witness ==
  unit.returned /\ unit.x = \h1F /\ unit.bit_count = 5 /\ unit.ret = \hFFFF

\* C20: PUTS and PUTSP read only the cells 0x0000..0xFFFF: the zero word
\* that ends the string is found at an address no higher than 0xFFFF, also
\* when no zero lies between R0 and the end of memory; and they change no
\* register and no memory cell.
C20_StringsStayInMemory ==
  [][TrapRan({TRAP_PUTS, TRAP_PUTSP}) =>
       LET s == [Cur EXCEPT !.reg[R_PC] = IncPC]
       IN /\ \A unknown \in {0, 63} :
               reg[R_R0] + Len(Scan(s, reg[R_R0], unknown)) <= UINT16_MAX
          /\ \A r \in (R_R0 .. R_R7) \cup {R_COND} : reg'[r] = reg[r]
          /\ MemorySame]_vars

====
